---- MODULE Spec2Model ----
(***************************************************************************)
(* csv_invoice_tool: row normalisation (normalizer.py), aggregation        *)
(* (aggregator.py), the pipeline driver (main.py, csv_loader.py) and the   *)
(* invoice builder (invoice_generator.py).                                 *)
(*                                                                         *)
(* A Python str is modelled as a sequence of one-character strings, so     *)
(* that strip(), replace(), int(), strptime() and split() are computed     *)
(* character by character.  Optional[T] is None == <<>> or Some(x) ==      *)
(* <<x>>.  A dict is a function whose DOMAIN is the set of keys present.   *)
(***************************************************************************)
EXTENDS Integers, Sequences, FiniteSets, TLC

VARIABLES
    \* ---- normalize_row called on its own (SpecNorm) ----
    raw,            \* the raw row: sequence of <<column name, value>> in iteration order
    nstore,         \* the caller-supplied store argument
    unified,        \* the dict built by step 1 of normalize_row
    result,         \* the returned pair <<row, err>>
    npc,            \* "call" before the call, "returned" after it
    \* ---- a run of main() (Spec) ----
    pc,             \* the statement main() is at
    input_dir,      \* names of the files in input/
    font_exists,    \* FONT_PATH.exists()
    csv_paths,      \* list_input_csvs(input_dir, month)
    fi,             \* index in csv_paths of the file of the outer loop
    store,          \* infer_store_name(csv_path)
    line_no,        \* line number of the row last yielded by iter_csv_rows
    rows_read,      \* number of rows iter_csv_rows has yielded so far
    normalized,     \* List[NormalizedRow]
    error_rows,     \* List[Dict[str, str]]
    out,            \* output/: table name -> rows written by write_csv
    by_store,       \* aggregate(): defaultdict(int)
    by_item,        \* aggregate(): defaultdict(int)
    ai,             \* aggregate(): index of the next record of its loop
    summary_rows,   \* load_summary_by_store(): List[tuple[str, int]]
    invoices,       \* build_invoices(): List[Invoice]
    ii,             \* generate_invoices_from_summary(): index of the next invoice
    created,        \* generate_invoices_from_summary(): List[Path]
    pdfs,           \* output/invoices/: file name -> invoice rendered into it
    _FONT_REGISTERED,
    ret             \* what main() returned, None while it runs

normVars == <<raw, nstore, unified, result, npc>>

mainVars == <<pc, input_dir, font_exists, csv_paths, fi, store, line_no,
              rows_read, normalized, error_rows, out, by_store, by_item, ai,
              summary_rows, invoices, ii, created, pdfs, _FONT_REGISTERED, ret>>

vars == <<normVars, mainVars>>

----------------------------------------------------------------------------
(* Python values.  A non-ASCII character is written as its code point,    *)
(* "U+65E5", and is one character of the string.                          *)

None == <<>>
Some(x) == <<x>>

DigitChars == <<"0", "1", "2", "3", "4", "5", "6", "7", "8", "9">>
Digits == {DigitChars[i] : i \in 1..10}
DigitVal(c) == (CHOOSE i \in 1..10 : DigitChars[i] = c) - 1

\* characters str.strip() removes (the ones that occur in the inputs)
Whitespace == {" ", "\t"}

RECURSIVE LStrip(_)
LStrip(s) ==
    IF s # <<>> /\ Head(s) \in Whitespace THEN LStrip(Tail(s)) ELSE s

RECURSIVE RStrip(_)
RStrip(s) ==
    IF s # <<>> /\ s[Len(s)] \in Whitespace
    THEN RStrip(SubSeq(s, 1, Len(s) - 1))
    ELSE s

\* str.strip()
Strip(s) == RStrip(LStrip(s))

\* str.replace(c, "")
Remove(s, c) == SelectSeq(s, LAMBDA x : x # c)

RECURSIVE DigitsToNat(_)
DigitsToNat(s) ==
    IF s = <<>> THEN 0
    ELSE 10 * DigitsToNat(SubSeq(s, 1, Len(s) - 1)) + DigitVal(s[Len(s)])

\* int(str): surrounding whitespace, an optional sign, decimal digits with
\* single underscores allowed between digits; ValueError is None here.
PyInt(s) ==
    LET t == Strip(s)
        signed == t # <<>> /\ Head(t) \in {"+", "-"}
        body == IF signed THEN Tail(t) ELSE t
        wellFormed ==
            /\ body # <<>>
            /\ \A i \in 1..Len(body) : body[i] \in Digits \cup {"_"}
            /\ body[1] \in Digits
            /\ body[Len(body)] \in Digits
            /\ \A i \in 1..(Len(body) - 1) : ~(body[i] = "_" /\ body[i + 1] = "_")
        n == DigitsToNat(Remove(body, "_"))
    IN  IF ~wellFormed THEN None
        ELSE IF signed /\ Head(t) = "-" THEN Some(0 - n) ELSE Some(n)

RECURSIVE NatToDigits(_)
NatToDigits(n) ==
    IF n < 10 THEN <<DigitChars[n + 1]>>
    ELSE NatToDigits(n \div 10) \o <<DigitChars[(n % 10) + 1]>>

\* str(int)
PyStr(n) == IF n < 0 THEN <<"-">> \o NatToDigits(0 - n) ELSE NatToDigits(n)

\* "%m" / "%d" of strftime: two digits, zero padded
Pad2(n) == IF n < 10 THEN <<"0">> \o NatToDigits(n) ELSE NatToDigits(n)

\* dict.get(k, default)
Get(d, k, default) == IF k \in DOMAIN d THEN d[k] ELSE default

\* d[k] = v
Put(d, k, v) == [x \in DOMAIN d \cup {k} |-> IF x = k THEN v ELSE d[x]]

EmptyDict == [x \in {} |-> 0]

----------------------------------------------------------------------------
(* normalizer.py *)

n_date == <<"d", "a", "t", "e">>
n_day == <<"d", "a", "y">>
n_hizuke == <<"U+65E5", "U+4ED8">>
n_product == <<"p", "r", "o", "d", "u", "c", "t">>
n_item_name == <<"i", "t", "e", "m", "_", "n", "a", "m", "e">>
n_shohinmei == <<"U+5546", "U+54C1", "U+540D">>
n_price == <<"p", "r", "i", "c", "e">>
n_tanka == <<"U+5358", "U+4FA1">>
n_quantity == <<"q", "u", "a", "n", "t", "i", "t", "y">>
n_suryo == <<"U+6570", "U+91CF">>
n_amount == <<"a", "m", "o", "u", "n", "t">>
n_kingaku == <<"U+91D1", "U+984D">>

COLUMN_MAP ==
    [k \in {n_date, n_day, n_hizuke, n_product, n_item_name, n_shohinmei,
            n_price, n_tanka, n_quantity, n_suryo, n_amount, n_kingaku} |->
        CASE k \in {n_date, n_day, n_hizuke} -> "date"
          [] k \in {n_product, n_item_name, n_shohinmei} -> "item"
          [] k \in {n_price, n_tanka} -> "price"
          [] k \in {n_quantity, n_suryo} -> "quantity"
          [] k \in {n_amount, n_kingaku} -> "amount"]

NormalizedRow(date, st, item, quantity, amount) ==
    [date |-> date, store |-> st, item |-> item,
     quantity |-> quantity, amount |-> amount]

_to_int(value) ==
    LET v == Strip(value)
    IN  IF v = <<>> THEN None ELSE PyInt(Remove(v, ","))

IsLeap(y) == y % 4 = 0 /\ (y % 100 # 0 \/ y % 400 = 0)

DaysInMonth(y, m) ==
    IF m = 2 THEN (IF IsLeap(y) THEN 29 ELSE 28)
    ELSE IF m \in {4, 6, 9, 11} THEN 30 ELSE 31

\* the token language of strptime's %m: 1[0-2] | 0[1-9] | [1-9]
MonthToken(t) ==
    \/ Len(t) = 2 /\ t[1] = "1" /\ t[2] \in {"0", "1", "2"}
    \/ Len(t) = 2 /\ t[1] = "0" /\ t[2] \in Digits \ {"0"}
    \/ Len(t) = 1 /\ t[1] \in Digits \ {"0"}

\* the token language of strptime's %d: 3[01] | [12]\d | 0[1-9] | [1-9] | " "[1-9]
DayToken(t) ==
    \/ Len(t) = 2 /\ t[1] = "3" /\ t[2] \in {"0", "1"}
    \/ Len(t) = 2 /\ t[1] \in {"1", "2"} /\ t[2] \in Digits
    \/ Len(t) = 2 /\ t[1] = "0" /\ t[2] \in Digits \ {"0"}
    \/ Len(t) = 1 /\ t[1] \in Digits \ {"0"}
    \/ Len(t) = 2 /\ t[1] = " " /\ t[2] \in Digits \ {"0"}

\* datetime.strptime(value, "%Y<sep>%m<sep>%d") followed by
\* strftime("%Y-%m-%d"); ValueError is None.  %Y is written as the decimal
\* year, which has four digits for every year from 1000 on.
StrpStrf(value, sep) ==
    LET n == Len(value)
        headOk == n >= 5 /\ (\A i \in 1..4 : value[i] \in Digits) /\ value[5] = sep
        rest == SubSeq(value, 6, n)
        seps == {j \in 1..Len(rest) : rest[j] = sep}
        j == CHOOSE x \in seps : \A y \in seps : x <= y
        mtok == SubSeq(rest, 1, j - 1)
        dtok == SubSeq(rest, j + 1, Len(rest))
        y == DigitsToNat(SubSeq(value, 1, 4))
        m == DigitsToNat(mtok)
        d == DigitsToNat(Remove(dtok, " "))
    IN  IF ~headOk \/ seps = {} THEN None
        ELSE IF ~MonthToken(mtok) \/ ~DayToken(dtok) THEN None
        ELSE IF y < 1 \/ d > DaysInMonth(y, m) THEN None
        ELSE Some(NatToDigits(y) \o <<"-">> \o Pad2(m) \o <<"-">> \o Pad2(d))

patterns == <<"-", "/", ".">>

RECURSIVE TryPatterns(_, _)
TryPatterns(value, i) ==
    IF i > Len(patterns) THEN None
    ELSE IF StrpStrf(value, patterns[i]) # None THEN StrpStrf(value, patterns[i])
    ELSE TryPatterns(value, i + 1)

_parse_date(value) ==
    LET v == Strip(value)
    IN  IF v = <<>> THEN None ELSE TryPatterns(v, 1)

\* UnifyStep keeping the first column of a canonical field instead of the last
UnifyStepFirstWins(u, kv) ==
    LET k == Strip(kv[1])
    IN  IF k \in DOMAIN COLUMN_MAP /\ COLUMN_MAP[k] \notin DOMAIN u
        THEN Put(u, COLUMN_MAP[k], Strip(kv[2]))
        ELSE u

\* one iteration of "for k, v in raw.items()"
UnifyStep(u, kv) ==
    LET k == Strip(kv[1])
    IN  IF k \in DOMAIN COLUMN_MAP THEN Put(u, COLUMN_MAP[k], Strip(kv[2])) ELSE u

RECURSIVE UnifyFrom(_, _, _)
UnifyFrom(r, i, u) ==
    IF i > Len(r) THEN u ELSE UnifyFrom(r, i + 1, UnifyStep(u, r[i]))

\* step 1 of normalize_row
Unify(r) == UnifyFrom(r, 1, EmptyDict)

\* the four reasons of normalize_row, romanised (the source strings are
\* Japanese); each is a non-empty, hence truthy, str
ERR_DATE == "date ga fusei/kara desu"
ERR_ITEM == "item ga kara desu"
ERR_QTY == "quantity ga fusei/kara desu"
ERR_AMOUNT == "amount mo price mo fusei/kara desu (keisan dekimasen)"

\* ComputeAmount preferring price * quantity whenever price parses
ComputeAmountPriceFirst(amount, price, qty) ==
    IF price # None THEN price[1] * qty[1] ELSE amount[1]

\* the amount of an accepted row: the parsed amount, else price * quantity
ComputeAmount(amount, price, qty) ==
    IF amount = None THEN price[1] * qty[1] ELSE amount[1]

\* normalize_row checking the item before the date
normalize_row_item_first(r, st) ==
    LET u == Unify(r)
        date == _parse_date(Get(u, "date", <<>>))
        item == Strip(Get(u, "item", <<>>))
        qty == _to_int(Get(u, "quantity", <<>>))
        amount == _to_int(Get(u, "amount", <<>>))
        price == _to_int(Get(u, "price", <<>>))
    IN  IF item = <<>> THEN <<None, Some(ERR_ITEM)>>
        ELSE IF date = None THEN <<None, Some(ERR_DATE)>>
        ELSE IF qty = None THEN <<None, Some(ERR_QTY)>>
        ELSE IF amount = None /\ price = None THEN <<None, Some(ERR_AMOUNT)>>
        ELSE <<Some(NormalizedRow(date[1], st, item, qty[1],
                                  ComputeAmount(amount, price, qty))),
               None>>

normalize_row(r, st) ==
    LET u == Unify(r)
        date == _parse_date(Get(u, "date", <<>>))
        item == Strip(Get(u, "item", <<>>))
        qty == _to_int(Get(u, "quantity", <<>>))
        amount == _to_int(Get(u, "amount", <<>>))
        price == _to_int(Get(u, "price", <<>>))
    IN  IF date = None THEN <<None, Some(ERR_DATE)>>
        ELSE IF item = <<>> THEN <<None, Some(ERR_ITEM)>>
        ELSE IF qty = None THEN <<None, Some(ERR_QTY)>>
        ELSE IF amount = None /\ price = None THEN <<None, Some(ERR_AMOUNT)>>
        ELSE <<Some(NormalizedRow(date[1], st, item, qty[1],
                                  ComputeAmount(amount, price, qty))),
               None>>

----------------------------------------------------------------------------
(* Ordering of str values: sorted() compares code point by code point *)

\* the characters of file names, store labels and items, by increasing
\* code point
CodeOrder == <<" ", ",", "-", ".", "/",
               "0", "1", "2", "3", "4", "5", "6", "7", "8", "9",
               "A", "B", "C", "D", "E", "F", "G", "H", "I", "J", "K", "L", "M",
               "N", "O", "P", "Q", "R", "S", "T", "U", "V", "W", "X", "Y", "Z",
               "_",
               "a", "b", "c", "d", "e", "f", "g", "h", "i", "j", "k", "l", "m",
               "n", "o", "p", "q", "r", "s", "t", "u", "v", "w", "x", "y", "z">>

\* the rank of ord(c) among these characters
Ord(c) == CHOOSE i \in 1..Len(CodeOrder) : CodeOrder[i] = c

\* a < b for str
RECURSIVE StrLess(_, _)
StrLess(a, b) ==
    IF b = <<>> THEN FALSE
    ELSE IF a = <<>> THEN TRUE
    ELSE IF Head(a) # Head(b) THEN Ord(Head(a)) < Ord(Head(b))
    ELSE StrLess(Tail(a), Tail(b))

\* sorted(S) for a set S of str
RECURSIVE Sorted(_)
Sorted(S) ==
    IF S = {} THEN <<>>
    ELSE LET least == CHOOSE x \in S : \A y \in S \ {x} : StrLess(x, y)
         IN  <<least>> \o Sorted(S \ {least})

\* str.replace(c, d) for single characters
Replace(s, c, d) == [i \in 1..Len(s) |-> IF s[i] = c THEN d ELSE s[i]]

\* s.endswith(t)
EndsWith(s, t) ==
    Len(s) >= Len(t) /\ SubSeq(s, Len(s) - Len(t) + 1, Len(s)) = t

\* str.split(sep): the pieces between the occurrences of sep
RECURSIVE SplitFrom(_, _, _)
SplitFrom(s, sep, piece) ==
    IF s = <<>> THEN <<piece>>
    ELSE IF Head(s) = sep THEN <<piece>> \o SplitFrom(Tail(s), sep, <<>>)
    ELSE SplitFrom(Tail(s), sep, Append(piece, Head(s)))

Split(s, sep) == SplitFrom(s, sep, <<>>)

\* sep.join(parts)
RECURSIVE Join(_, _)
Join(parts, sep) ==
    IF parts = <<>> THEN <<>>
    ELSE IF Len(parts) = 1 THEN parts[1]
    ELSE parts[1] \o <<sep>> \o Join(Tail(parts), sep)

----------------------------------------------------------------------------
(* aggregator.py *)

\* d[k] += amount that overwrites the total instead of adding to it
AddToOverwrite(d, k, amount) == Put(d, k, amount)

\* d[k] += amount that keeps the first amount of a key
AddToFirstOnly(d, k, amount) == IF k \in DOMAIN d THEN d ELSE Put(d, k, amount)

\* d[k] += amount on a defaultdict(int)
AddTo(d, k, amount) == Put(d, k, Get(d, k, 0) + amount)

\* the loop of aggregate from record i on
RECURSIVE AggregateFrom(_, _, _, _)
AggregateFrom(rows, i, bs, bi) ==
    IF i > Len(rows) THEN [by_store |-> bs, by_item |-> bi]
    ELSE AggregateFrom(rows, i + 1,
                       AddTo(bs, rows[i].store, rows[i].amount),
                       AddTo(bi, rows[i].item, rows[i].amount))

aggregate(rows) == AggregateFrom(rows, 1, EmptyDict, EmptyDict)

----------------------------------------------------------------------------
(* csv_loader.py *)

dot_csv == <<".", "c", "s", "v">>

\* Path.stem of a name ending in ".csv"
Stem(name) == SubSeq(name, 1, Len(name) - Len(dot_csv))

list_input_csvs(dir, month) ==
    LET month_suffix == Replace(month, "-", "_")
    IN  Sorted({f \in dir : EndsWith(f, <<"_">> \o month_suffix \o dot_csv)})

infer_store_name(csv_path) ==
    LET name == Stem(csv_path)
        parts == Split(name, "_")
    IN  IF Len(parts) >= 3
        THEN Join(SubSeq(parts, 1, Len(parts) - 2), "_")
        ELSE name

----------------------------------------------------------------------------
(* invoice_generator.py *)

\* tax_rate=0.10 of main(), as the fraction RateNum / RateDen
RateNum == 1
RateDen == 10

\* round(n / d) of Python 3 for d > 0: to the nearest integer, a tie to the
\* even neighbour.  For tax_rate 0.10 the double subtotal * 0.10 rounds as
\* the exact quotient subtotal / 10 does (compared for every subtotal of
\* magnitude below 2,000,000).
PyRound(n, d) ==
    LET q == n \div d
        r == n % d
    IN  IF 2 * r < d THEN q
        ELSE IF 2 * r > d THEN q + 1
        ELSE IF q % 2 = 0 THEN q ELSE q + 1

_calc_tax(subtotal, num, den) == PyRound(subtotal * num, den)

s_INV == <<"I", "N", "V", "-">>
s_invoice_ == <<"i", "n", "v", "o", "i", "c", "e", "_">>
dot_pdf == <<".", "p", "d", "f">>

_make_invoice_no(st, month) ==
    LET yyyymm == Remove(month, "-")
        safe == Replace(st, " ", "_")
    IN  s_INV \o yyyymm \o <<"-">> \o safe

\* date.today().strftime("%Y-%m-%d"): the day of the run, one fixed day here
TODAY == <<"2", "0", "2", "6", "-", "0", "2", "-", "0", "1">>

Invoice(invoice_no, issue_date, bill_to, subtotal, tax, total) ==
    [invoice_no |-> invoice_no, issue_date |-> issue_date, bill_to |-> bill_to,
     subtotal |-> subtotal, tax_rate |-> <<RateNum, RateDen>>,
     tax |-> tax, total |-> total]

\* the rows of summary_by_store.csv load_summary_by_store keeps
RECURSIVE load_summary_by_store(_)
load_summary_by_store(rows) ==
    IF rows = <<>> THEN <<>>
    ELSE LET st == Strip(rows[1].store)
             total_amount == Strip(rows[1].total_amount)
         IN  IF st = <<>> \/ total_amount = <<>>
             THEN load_summary_by_store(Tail(rows))
             ELSE <<<<st, PyInt(total_amount)[1]>>>>
                     \o load_summary_by_store(Tail(rows))

RECURSIVE build_invoices(_, _)
build_invoices(rows, month) ==
    IF rows = <<>> THEN <<>>
    ELSE LET st == rows[1][1]
             subtotal == rows[1][2]
             tax == _calc_tax(subtotal, RateNum, RateDen)
         IN  <<Invoice(_make_invoice_no(st, month), TODAY, st, subtotal,
                       tax, subtotal + tax)>>
                \o build_invoices(Tail(rows), month)

\* the file name generate_invoices_from_summary gives the PDF of an invoice
PdfName(inv, month) ==
    s_invoice_ \o inv.bill_to \o <<"_">> \o Remove(month, "-") \o dot_pdf

----------------------------------------------------------------------------
(* main.py: one run of main() with --month 2026-01 *)

s_2026_01_01 == <<"2", "0", "2", "6", "-", "0", "1", "-", "0", "1">>
s_2026_1_5 == <<"2", "0", "2", "6", "/", "1", "/", "5">>
s_2024_02_29 == <<" ", "2", "0", "2", "4", ".", "0", "2", ".", "2", "9", " ">>
s_2026_02_30 == <<"2", "0", "2", "6", "-", "0", "2", "-", "3", "0">>
s_2026_01_05_mixed == <<"2", "0", "2", "6", "-", "0", "1", "/", "0", "5">>

MaxFiles == 2       \* files in input/
MaxRows == 3        \* rows read in one run, over all files

month_arg == <<"2", "0", "2", "6", "-", "0", "1">>

f_a == <<"a", "_", "2", "0", "2", "6", "_", "0", "1", ".", "c", "s", "v">>
f_sp_a == <<" ", "a", "_", "2", "0", "2", "6", "_", "0", "1", ".", "c", "s", "v">>
f_empty == <<"_", "2", "0", "2", "6", "_", "0", "1", ".", "c", "s", "v">>
f_s_b == <<"s", "_", "b", "_", "2", "0", "2", "6", "_", "0", "1", ".", "c", "s", "v">>
f_feb == <<"a", "_", "2", "0", "2", "6", "_", "0", "2", ".", "c", "s", "v">>

FileNames == {f_a, f_sp_a, f_empty, f_s_b, f_feb}

\* the rows a file may hold
row_5 == << <<n_date, s_2026_01_01>>, <<n_product, <<"Y">>>>,
            <<n_quantity, <<"1">>>>, <<n_amount, <<"5">>>> >>
row_20 == << <<n_hizuke, s_2026_1_5>>, <<n_shohinmei, <<"C">>>>,
             <<n_suryo, <<"3">>>>, <<n_kingaku, <<"2", "0">>>> >>
row_neg == << <<n_date, s_2026_01_01>>, <<n_product, <<"Y">>>>,
              <<n_quantity, <<"2">>>>, <<n_price, <<"-", "5">>>> >>
row_nodate == << <<n_date, <<>>>>, <<n_product, <<"X">>>>,
                 <<n_quantity, <<"1">>>>, <<n_amount, <<"1", "0", "0">>>> >>

FileRows == {row_5, row_20, row_neg, row_nodate}

\* "if err:"
Truthy(err) == err # None /\ err[1] # ""

Unwrap(o) == IF o = None THEN None ELSE o[1]

ErrorRow(file, line, st, reason, raw_row) ==
    [file |-> file, line |-> PyStr(line), store |-> st,
     reason |-> reason, raw |-> raw_row]

\* the loop body of main() without its "continue"
LoopBodyNoContinue(norm, errs, file, line, st, raw_row) ==
    LET res == normalize_row(raw_row, st)
    IN  IF Truthy(res[2])
        THEN [normalized |-> Append(norm, Unwrap(res[1])),
              error_rows |-> Append(errs, ErrorRow(file, line, st, res[2][1], raw_row))]
        ELSE [normalized |-> Append(norm, Unwrap(res[1])), error_rows |-> errs]

\* the body of "for line_no, raw_row in iter_csv_rows(csv_path)"
LoopBody(norm, errs, file, line, st, raw_row) ==
    LET res == normalize_row(raw_row, st)
    IN  IF Truthy(res[2])
        THEN [normalized |-> norm,
              error_rows |-> Append(errs, ErrorRow(file, line, st, res[2][1], raw_row))]
        ELSE [normalized |-> Append(norm, Unwrap(res[1])), error_rows |-> errs]

NormIdle ==
    /\ raw = <<>>
    /\ nstore = <<>>
    /\ unified = EmptyDict
    /\ result = <<None, None>>
    /\ npc = "idle"

MainLocals ==
    /\ csv_paths = <<>>
    /\ fi = 0
    /\ store = <<>>
    /\ line_no = 0
    /\ rows_read = 0
    /\ normalized = <<>>
    /\ error_rows = <<>>
    /\ out = EmptyDict
    /\ by_store = EmptyDict
    /\ by_item = EmptyDict
    /\ ai = 1
    /\ summary_rows = <<>>
    /\ invoices = <<>>
    /\ ii = 1
    /\ created = <<>>
    /\ pdfs = EmptyDict
    /\ _FONT_REGISTERED = FALSE
    /\ ret = None

Init ==
    /\ NormIdle
    /\ pc = "list"
    /\ input_dir \in {d \in SUBSET FileNames : Cardinality(d) <= MaxFiles}
    /\ font_exists \in BOOLEAN
    /\ MainLocals

\* csv_paths = list_input_csvs(...), some file found
ListInputs ==
    /\ pc = "list"
    /\ list_input_csvs(input_dir, month_arg) # <<>>
    /\ csv_paths' = list_input_csvs(input_dir, month_arg)
    /\ fi' = 1
    /\ pc' = "files"
    /\ UNCHANGED normVars
    /\ UNCHANGED <<input_dir, font_exists, store, line_no, rows_read,
                   normalized, error_rows, out, by_store, by_item, ai,
                   summary_rows, invoices, ii, created, pdfs,
                   _FONT_REGISTERED, ret>>

\* "if not csv_paths: return 1"
NoInputs ==
    /\ pc = "list"
    /\ list_input_csvs(input_dir, month_arg) = <<>>
    /\ pc' = "done"
    /\ ret' = Some(1)
    /\ UNCHANGED normVars
    /\ UNCHANGED <<input_dir, font_exists, csv_paths, fi, store, line_no,
                   rows_read, normalized, error_rows, out, by_store, by_item,
                   ai, summary_rows, invoices, ii, created, pdfs,
                   _FONT_REGISTERED>>

\* "for csv_path in csv_paths: store = infer_store_name(csv_path)"
OpenFile ==
    /\ pc = "files"
    /\ fi <= Len(csv_paths)
    /\ store' = infer_store_name(csv_paths[fi])
    /\ line_no' = 1
    /\ pc' = "rows"
    /\ UNCHANGED normVars
    /\ UNCHANGED <<input_dir, font_exists, csv_paths, fi, rows_read,
                   normalized, error_rows, out, by_store, by_item, ai,
                   summary_rows, invoices, ii, created, pdfs,
                   _FONT_REGISTERED, ret>>

\* iter_csv_rows yields the next row of the file and the loop body runs
ReadRow ==
    /\ pc = "rows"
    /\ rows_read < MaxRows
    /\ \E raw_row \in FileRows :
          LET after == LoopBody(normalized, error_rows, csv_paths[fi],
                                line_no + 1, store, raw_row)
          IN  /\ normalized' = after.normalized
              /\ error_rows' = after.error_rows
    /\ line_no' = line_no + 1
    /\ rows_read' = rows_read + 1
    /\ UNCHANGED normVars
    /\ UNCHANGED <<pc, input_dir, font_exists, csv_paths, fi, store, out,
                   by_store, by_item, ai, summary_rows, invoices, ii, created,
                   pdfs, _FONT_REGISTERED, ret>>

\* iter_csv_rows is exhausted: on to the next file
EndOfFile ==
    /\ pc = "rows"
    /\ fi' = fi + 1
    /\ pc' = "files"
    /\ UNCHANGED normVars
    /\ UNCHANGED <<input_dir, font_exists, csv_paths, store, line_no,
                   rows_read, normalized, error_rows, out, by_store, by_item,
                   ai, summary_rows, invoices, ii, created, pdfs,
                   _FONT_REGISTERED, ret>>

NormalizedCsvRow(r) ==
    [date |-> r.date, store |-> r.store, item |-> r.item,
     quantity |-> PyStr(r.quantity), amount |-> PyStr(r.amount)]

\* write_csv(output_dir / "normalized.csv", ...) after the last file
WriteNormalized ==
    /\ pc = "files"
    /\ fi > Len(csv_paths)
    /\ out' = Put(out, "normalized.csv",
                  [i \in 1..Len(normalized) |-> NormalizedCsvRow(normalized[i])])
    /\ pc' = "write_errors"
    /\ UNCHANGED normVars
    /\ UNCHANGED <<input_dir, font_exists, csv_paths, fi, store, line_no,
                   rows_read, normalized, error_rows, by_store, by_item, ai,
                   summary_rows, invoices, ii, created, pdfs,
                   _FONT_REGISTERED, ret>>

\* write_csv(output_dir / "errors.csv", ...)
WriteErrors ==
    /\ pc = "write_errors"
    /\ out' = Put(out, "errors.csv", error_rows)
    /\ pc' = "aggregate"
    /\ UNCHANGED normVars
    /\ UNCHANGED <<input_dir, font_exists, csv_paths, fi, store, line_no,
                   rows_read, normalized, error_rows, by_store, by_item, ai,
                   summary_rows, invoices, ii, created, pdfs,
                   _FONT_REGISTERED, ret>>

\* one iteration of "for r in rows" of aggregate(normalized)
AggregateStep ==
    /\ pc = "aggregate"
    /\ ai <= Len(normalized)
    /\ by_store' = AddTo(by_store, normalized[ai].store, normalized[ai].amount)
    /\ by_item' = AddTo(by_item, normalized[ai].item, normalized[ai].amount)
    /\ ai' = ai + 1
    /\ UNCHANGED normVars
    /\ UNCHANGED <<pc, input_dir, font_exists, csv_paths, fi, store, line_no,
                   rows_read, normalized, error_rows, out, summary_rows,
                   invoices, ii, created, pdfs, _FONT_REGISTERED, ret>>

\* the rows of a summary table: sorted(d.items()) with str(v)
SummaryRows(d, keyField) ==
    LET keys == Sorted(DOMAIN d)
    IN  [i \in 1..Len(keys) |->
            IF keyField = "store"
            THEN [store |-> keys[i], total_amount |-> PyStr(d[keys[i]])]
            ELSE [item |-> keys[i], total_amount |-> PyStr(d[keys[i]])]]

\* aggregate returns; write_csv(output_dir / "summary_by_store.csv", ...)
WriteSummaryByStore ==
    /\ pc = "aggregate"
    /\ ai > Len(normalized)
    /\ out' = Put(out, "summary_by_store.csv", SummaryRows(by_store, "store"))
    /\ pc' = "write_by_item"
    /\ UNCHANGED normVars
    /\ UNCHANGED <<input_dir, font_exists, csv_paths, fi, store, line_no,
                   rows_read, normalized, error_rows, by_store, by_item, ai,
                   summary_rows, invoices, ii, created, pdfs,
                   _FONT_REGISTERED, ret>>

\* write_csv(output_dir / "summary_by_item.csv", ...)
WriteSummaryByItem ==
    /\ pc = "write_by_item"
    /\ out' = Put(out, "summary_by_item.csv", SummaryRows(by_item, "item"))
    /\ pc' = "generate"
    /\ UNCHANGED normVars
    /\ UNCHANGED <<input_dir, font_exists, csv_paths, fi, store, line_no,
                   rows_read, normalized, error_rows, by_store, by_item, ai,
                   summary_rows, invoices, ii, created, pdfs,
                   _FONT_REGISTERED, ret>>

\* generate_invoices_from_summary up to its loop: load_summary_by_store
\* reads the table back and build_invoices makes the invoices
LoadAndBuild ==
    /\ pc = "generate"
    /\ summary_rows' = load_summary_by_store(out["summary_by_store.csv"])
    /\ invoices' = build_invoices(summary_rows', month_arg)
    /\ ii' = 1
    /\ created' = <<>>
    /\ pc' = "render"
    /\ UNCHANGED normVars
    /\ UNCHANGED <<input_dir, font_exists, csv_paths, fi, store, line_no,
                   rows_read, normalized, error_rows, out, by_store, by_item,
                   ai, pdfs, _FONT_REGISTERED, ret>>

\* _ensure_japanese_font_registered setting the flag before it looks for
\* the font file
_ensure_font_flag_first(registered, exists) ==
    IF registered THEN [raised |-> FALSE, registered |-> TRUE]
    ELSE IF ~exists THEN [raised |-> TRUE, registered |-> TRUE]
    ELSE [raised |-> FALSE, registered |-> TRUE]

\* _ensure_japanese_font_registered(): whether it raises FileNotFoundError,
\* and the _FONT_REGISTERED it leaves
_ensure_japanese_font_registered(registered, exists) ==
    IF registered THEN [raised |-> FALSE, registered |-> TRUE]
    ELSE IF ~exists THEN [raised |-> TRUE, registered |-> FALSE]
    ELSE [raised |-> FALSE, registered |-> TRUE]

\* render_invoice_pdf(inv, pdf_path) with the font registered or registrable
RenderInvoice ==
    /\ pc = "render"
    /\ ii <= Len(invoices)
    /\ ~_ensure_japanese_font_registered(_FONT_REGISTERED, font_exists).raised
    /\ _FONT_REGISTERED' =
          _ensure_japanese_font_registered(_FONT_REGISTERED, font_exists).registered
    /\ pdfs' = Put(pdfs, PdfName(invoices[ii], month_arg), invoices[ii])
    /\ created' = Append(created, PdfName(invoices[ii], month_arg))
    /\ ii' = ii + 1
    /\ UNCHANGED normVars
    /\ UNCHANGED <<pc, input_dir, font_exists, csv_paths, fi, store, line_no,
                   rows_read, normalized, error_rows, out, by_store, by_item,
                   ai, summary_rows, invoices, ret>>

\* _ensure_japanese_font_registered raises FileNotFoundError, which leaves
\* render_invoice_pdf, generate_invoices_from_summary and main()
RenderFails ==
    /\ pc = "render"
    /\ ii <= Len(invoices)
    /\ _ensure_japanese_font_registered(_FONT_REGISTERED, font_exists).raised
    /\ _FONT_REGISTERED' =
          _ensure_japanese_font_registered(_FONT_REGISTERED, font_exists).registered
    /\ pc' = "raised"
    /\ UNCHANGED normVars
    /\ UNCHANGED <<input_dir, font_exists, csv_paths, fi, store, line_no,
                   rows_read, normalized, error_rows, out, by_store, by_item,
                   ai, summary_rows, invoices, ii, created, pdfs, ret>>

\* every invoice rendered: "return 0"
Finish ==
    /\ pc = "render"
    /\ ii > Len(invoices)
    /\ pc' = "done"
    /\ ret' = Some(0)
    /\ UNCHANGED normVars
    /\ UNCHANGED <<input_dir, font_exists, csv_paths, fi, store, line_no,
                   rows_read, normalized, error_rows, out, by_store, by_item,
                   ai, summary_rows, invoices, ii, created, pdfs,
                   _FONT_REGISTERED>>

Next ==
    \/ ListInputs
    \/ NoInputs
    \/ OpenFile
    \/ ReadRow
    \/ EndOfFile
    \/ WriteNormalized
    \/ WriteErrors
    \/ AggregateStep
    \/ WriteSummaryByStore
    \/ WriteSummaryByItem
    \/ LoadAndBuild
    \/ RenderInvoice
    \/ RenderFails
    \/ Finish

Spec == Init /\ [][Next]_vars

----------------------------------------------------------------------------
(* Inputs of normalize_row: rows over fixed column layouts, every cell    *)
(* drawn from the values of its kind.                                      *)

DateVals == {s_2026_01_01, s_2026_1_5, s_2024_02_29, s_2026_02_30,
             s_2026_01_05_mixed, <<>>}

ItemVals == {<<"Y">>, <<" ", "C", "o", " ">>, <<" ">>, <<>>}

IntVals == {<<"2">>, <<"-", "3">>, <<"1", ",", "5", "0", "0">>,
            <<" ", "5", "0", " ">>, <<"a", "b", "c">>, <<>>}

n_item == <<"i", "t", "e", "m">>
n_memo == <<"m", "e", "m", "o">>
n_date_padded == <<" ", "d", "a", "t", "e", " ">>
n_Date == <<"D", "a", "t", "e">>

Col(name, pool) == [name |-> name, pool |-> pool]

Layouts ==
    { <<Col(n_date, DateVals), Col(n_item, ItemVals),
        Col(n_quantity, IntVals), Col(n_price, IntVals \cup {<<"5", "0">>})>>,
      <<Col(n_hizuke, DateVals), Col(n_shohinmei, ItemVals),
        Col(n_suryo, IntVals), Col(n_kingaku, IntVals)>>,
      <<Col(n_day, DateVals), Col(n_product, ItemVals),
        Col(n_quantity, IntVals), Col(n_amount, IntVals),
        Col(n_tanka, IntVals)>>,
      <<Col(n_date, DateVals), Col(n_date_padded, DateVals),
        Col(n_item_name, ItemVals), Col(n_quantity, {<<"2">>, <<>>}),
        Col(n_price, IntVals), Col(n_tanka, {<<"2">>, <<"a", "b", "c">>, <<>>})>>,
      <<Col(n_Date, {s_2026_01_01}), Col(n_hizuke, {s_2026_1_5, <<>>}),
        Col(n_memo, ItemVals), Col(n_product, ItemVals),
        Col(n_suryo, {<<"2">>, <<"-", "3">>}), Col(n_amount, IntVals),
        Col(n_kingaku, {<<"2">>, <<"a", "b", "c">>, <<>>})>> }

RECURSIVE RowsOf(_)
RowsOf(layout) ==
    IF layout = <<>> THEN {<<>>}
    ELSE {<<<<Head(layout).name, v>>>> \o r :
             v \in Head(layout).pool, r \in RowsOf(Tail(layout))}

RawRows == UNION {RowsOf(l) : l \in Layouts}

StoreArgs == {<<"s", "t", "o", "r", "e", "_", "a">>, <<>>}

----------------------------------------------------------------------------
(* SpecNorm: one call of normalize_row on an arbitrary raw row *)

MainIdle ==
    /\ pc = "idle"
    /\ input_dir = {}
    /\ font_exists = FALSE
    /\ MainLocals

InitNorm ==
    /\ MainIdle
    /\ raw \in RawRows
    /\ nstore \in StoreArgs
    /\ unified = EmptyDict
    /\ result = <<None, None>>
    /\ npc = "call"

CallNormalize ==
    /\ npc = "call"
    /\ unified' = Unify(raw)
    /\ result' = normalize_row(raw, nstore)
    /\ npc' = "returned"
    /\ UNCHANGED <<raw, nstore>>
    /\ UNCHANGED mainVars

NextNorm == CallNormalize

SpecNorm == InitNorm /\ [][NextNorm]_vars

----------------------------------------------------------------------------
(* Properties of normalize_row (SpecNorm) *)

Returned == npc = "returned"
Accepted == Returned /\ result[1] # None
Rejected == Returned /\ result[1] = None
Row == result[1][1]
Reason == result[2][1]

CanonicalFields == {"date", "item", "price", "quantity", "amount"}

\* the canonical fields of the row after step 1, absent keys read as ""
FieldDate == Get(unified, "date", <<>>)
FieldItem == Get(unified, "item", <<>>)
FieldQuantity == Get(unified, "quantity", <<>>)
FieldAmount == Get(unified, "amount", <<>>)
FieldPrice == Get(unified, "price", <<>>)

DateFails == _parse_date(FieldDate) = None
ItemFails == Strip(FieldItem) = <<>>
QuantityFails == _to_int(FieldQuantity) = None
AmountFails == _to_int(FieldAmount) = None /\ _to_int(FieldPrice) = None

\* C2: normalize_row rejects a row if and only if its date, item, quantity
\* or amount-and-price check fails; the reason returned is the one of the
\* first failing check in the order date, item, quantity, amount; an
\* accepted record carries the parsed date, the trimmed item and the parsed
\* quantity, never a default.
C2_CheckOrder ==
    Returned =>
        /\ Rejected <=> (DateFails \/ ItemFails \/ QuantityFails \/ AmountFails)
        /\ Rejected <=> result[2] # None
        /\ DateFails => result = <<None, Some(ERR_DATE)>>
        /\ ~DateFails /\ ItemFails => result = <<None, Some(ERR_ITEM)>>
        /\ ~DateFails /\ ~ItemFails /\ QuantityFails
              => result = <<None, Some(ERR_QTY)>>
        /\ ~DateFails /\ ~ItemFails /\ ~QuantityFails /\ AmountFails
              => result = <<None, Some(ERR_AMOUNT)>>
        /\ Accepted =>
              /\ Row.date = _parse_date(FieldDate)[1]
              /\ Row.item = Strip(FieldItem)
              /\ Row.quantity = _to_int(FieldQuantity)[1]

\* a row failing the item, quantity and amount checks at once, rejected for
\* its item
C2_Witness ==
    /\ Rejected
    /\ ~DateFails /\ ItemFails /\ QuantityFails /\ AmountFails
    /\ Reason = ERR_ITEM

\* "absent" read generously: no such column, or an empty cell
AmountAbsent == FieldAmount = <<>>
PricePresent == FieldPrice # <<>>

\* C3 as stated: an accepted record has amount = quantity * price when the
\* amount field was absent and price present, and in every other accepted
\* case the integer parsed from the amount field.
C3_AsStated ==
    Accepted =>
        IF AmountAbsent /\ PricePresent
        THEN /\ _to_int(FieldPrice) # None
             /\ Row.amount = Row.quantity * _to_int(FieldPrice)[1]
        ELSE /\ _to_int(FieldAmount) # None
             /\ Row.amount = _to_int(FieldAmount)[1]

\* C3 amended: an accepted record has amount = quantity * price when the
\* amount field is absent, empty or not an integer (price is then an
\* integer), and otherwise the integer parsed from the amount field with
\* its thousands separators removed ("1,500" is 1500), whatever price is.
C3_DerivedAmount ==
    Accepted =>
        /\ _to_int(FieldAmount) = None =>
              /\ _to_int(FieldPrice) # None
              /\ Row.amount = Row.quantity * _to_int(FieldPrice)[1]
        /\ _to_int(FieldAmount) # None => Row.amount = _to_int(FieldAmount)[1]
        /\ FieldAmount = <<"1", ",", "5", "0", "0">> => Row.amount = 1500
        /\ FieldAmount = <<"a", "b", "c">> /\ FieldPrice = <<"5", "0">>
              => Row.amount = 50 * Row.quantity

\* an accepted record whose amount cell is present but not an integer: the
\* amount comes from price
C3_Witness ==
    /\ Accepted
    /\ FieldAmount = <<"a", "b", "c">>
    /\ FieldPrice = <<"2">>
    /\ Row.quantity = -3
    /\ Row.amount = -6

\* the value under the column called exactly name, "" when there is none
Cell(name) ==
    LET idx == {i \in 1..Len(raw) : raw[i][1] = name}
    IN  IF idx = {} THEN <<>> ELSE raw[CHOOSE i \in idx : TRUE][2]

ColumnNames == {raw[i][1] : i \in 1..Len(raw)}

\* C4: a row with exactly the columns date, item, quantity, price, a valid
\* date, a non-empty item, an integer quantity and an integer price is
\* accepted, with that item and amount = price * quantity.
C4_ItemColumnAccepted ==
    (/\ Returned
     /\ ColumnNames = {n_date, n_item, n_quantity, n_price}
     /\ _parse_date(Cell(n_date)) # None
     /\ Strip(Cell(n_item)) # <<>>
     /\ _to_int(Cell(n_quantity)) # None
     /\ _to_int(Cell(n_price)) # None)
    => /\ Accepted
       /\ Row.item = Strip(Cell(n_item))
       /\ Row.amount = _to_int(Cell(n_price))[1] * _to_int(Cell(n_quantity))[1]

IsIsoDate(d) ==
    /\ Len(d) = 10
    /\ \A i \in {1, 2, 3, 4, 6, 7, 9, 10} : d[i] \in Digits
    /\ d[5] = "-" /\ d[8] = "-"
    /\ DigitsToNat(SubSeq(d, 6, 7)) \in 1..12
    /\ DigitsToNat(SubSeq(d, 9, 10))
          \in 1..DaysInMonth(DigitsToNat(SubSeq(d, 1, 4)), DigitsToNat(SubSeq(d, 6, 7)))

\* C5: every record normalize_row returns has a non-negative quantity, a
\* non-empty item, a date in YYYY-MM-DD form and the store the caller gave.
C5_RecordInvariant ==
    Accepted =>
        /\ Row.quantity >= 0
        /\ Row.item # <<>>
        /\ IsIsoDate(Row.date)
        /\ Row.store = nstore

\* the columns of raw that map to canonical field f
ColumnsOf(f) ==
    {i \in 1..Len(raw) :
        /\ Strip(raw[i][1]) \in DOMAIN COLUMN_MAP
        /\ COLUMN_MAP[Strip(raw[i][1])] = f}

Last(idx) == CHOOSE i \in idx : \A j \in idx : j <= i

\* raw without its unrecognised columns and without every column that a
\* later column of the same canonical field follows
LastColumnsOnly ==
    SelectSeq([i \in 1..Len(raw) |-> <<i, raw[i]>>],
              LAMBDA e : \E f \in CanonicalFields :
                            ColumnsOf(f) # {} /\ e[1] = Last(ColumnsOf(f)))

RECURSIVE Seconds(_)
Seconds(s) == IF s = <<>> THEN <<>> ELSE <<Head(s)[2]>> \o Seconds(Tail(s))

\* C8: of several columns mapping to one canonical field the last in
\* iteration order supplies the value, also when it is empty or invalid;
\* a field no column maps to is absent; unrecognised columns and
\* overwritten columns do not influence the result.
C8_LastColumnWins ==
    Returned =>
        /\ \A f \in CanonicalFields :
              IF ColumnsOf(f) = {} THEN f \notin DOMAIN unified
              ELSE /\ f \in DOMAIN unified
                   /\ unified[f] = Strip(raw[Last(ColumnsOf(f))][2])
        /\ DOMAIN unified \subseteq CanonicalFields
        /\ result = normalize_row(Seconds(LastColumnsOnly), nstore)

\* two date columns, the first valid and the last empty: rejected for its
\* date; and an unrecognised column is present
C8_Witness ==
    /\ Rejected
    /\ Cardinality(ColumnsOf("date")) = 2
    /\ \E i \in ColumnsOf("date") :
          i # Last(ColumnsOf("date")) /\ _parse_date(raw[i][2]) # None
    /\ raw[Last(ColumnsOf("date"))][2] = <<>>
    /\ Reason = ERR_DATE

----------------------------------------------------------------------------
(* Properties of a run of main() (Spec) *)

IsPrefix(a, b) == Len(a) <= Len(b) /\ SubSeq(b, 1, Len(a)) = a

\* a step of the row loop that put the row read into the accepted list only
AppendedToNormalized ==
    /\ Len(normalized') = Len(normalized) + 1
    /\ IsPrefix(normalized, normalized')
    /\ normalized'[Len(normalized')] # None
    /\ error_rows' = error_rows

\* a step of the row loop that put the row read into the rejected list only
AppendedToErrors ==
    /\ Len(error_rows') = Len(error_rows) + 1
    /\ IsPrefix(error_rows, error_rows')
    /\ error_rows'[Len(error_rows')].file = csv_paths[fi]
    /\ error_rows'[Len(error_rows')].line = PyStr(line_no')
    /\ normalize_row(error_rows'[Len(error_rows')].raw, store)[1] = None
    /\ normalized' = normalized

\* C1: every row read goes to exactly one of normalized and error_rows (so
\* the two lengths add up to the number of rows read), the lists change
\* only when a row is read, and after a row, rejected or not, the loop is
\* still reading.
C1_EveryRowClassifiedOnce ==
    /\ [](Len(normalized) + Len(error_rows) = rows_read)
    /\ [][/\ rows_read' = rows_read + 1 =>
               /\ AppendedToNormalized \/ AppendedToErrors
               /\ ~(AppendedToNormalized /\ AppendedToErrors)
               /\ pc' = "rows"
          /\ rows_read' = rows_read =>
               /\ normalized' = normalized
               /\ error_rows' = error_rows]_vars

\* line 2 of the first file was rejected and line 3 of it accepted
C1_Witness ==
    /\ pc = "rows" /\ fi = 1 /\ line_no = 3 /\ rows_read = 2
    /\ Len(error_rows) = 1 /\ error_rows[1].line = <<"2">>
    /\ Len(normalized) = 1

RECURSIVE SumValues(_)
SumValues(d) ==
    IF DOMAIN d = {} THEN 0
    ELSE LET k == CHOOSE x \in DOMAIN d : TRUE
         IN  d[k] + SumValues([x \in DOMAIN d \ {k} |-> d[x]])

RECURSIVE SumAmounts(_, _)
SumAmounts(rows, n) ==
    IF n = 0 THEN 0 ELSE rows[n].amount + SumAmounts(rows, n - 1)

AggregateReturned ==
    \/ pc \in {"write_by_item", "generate", "render", "raised"}
    \/ pc = "done" /\ ret = Some(0)

\* C6: after each record aggregate has added, and when it returns, the
\* by_store totals and the by_item totals both sum to the amounts of the
\* records added so far; on return these are all the accepted records.
C6_Conservation ==
    /\ ai \in 1..(Len(normalized) + 1)
    /\ SumValues(by_store) = SumAmounts(normalized, ai - 1)
    /\ SumValues(by_item) = SumAmounts(normalized, ai - 1)
    /\ AggregateReturned =>
          /\ ai = Len(normalized) + 1
          /\ SumValues(by_store) = SumAmounts(normalized, Len(normalized))
          /\ SumValues(by_item) = SumAmounts(normalized, Len(normalized))

\* three records in two stores, one of them with a negative amount, added
C6_Witness ==
    /\ pc = "aggregate" /\ ai = 4
    /\ Cardinality(DOMAIN by_store) = 2
    /\ Cardinality(DOMAIN by_item) = 2
    /\ \E i \in 1..3 : normalized[i].amount < 0
    /\ SumValues(by_store) # 0

PermsOf(n) ==
    {p \in [1..n -> 1..n] : \A i, j \in 1..n : p[i] = p[j] => i = j}

Permuted(rows, p) == [i \in 1..Len(rows) |-> rows[p[i]]]

\* C7: the totals aggregate returned are the totals of every permutation of
\* the accepted records, key set and total per key; no record gives two
\* empty mappings.
C7_OrderIndependent ==
    AggregateReturned =>
        /\ \A p \in PermsOf(Len(normalized)) :
              /\ aggregate(Permuted(normalized, p)).by_store = by_store
              /\ aggregate(Permuted(normalized, p)).by_item = by_item
        /\ normalized = <<>> => by_store = EmptyDict /\ by_item = EmptyDict
        /\ DOMAIN by_store = {normalized[i].store : i \in 1..Len(normalized)}
        /\ DOMAIN by_item = {normalized[i].item : i \in 1..Len(normalized)}

\* three records aggregated, two of one store with different amounts
C7_Witness ==
    /\ AggregateReturned
    /\ Len(normalized) = 3
    /\ \E i, j \in 1..3 :
          /\ normalized[i].store = normalized[j].store
          /\ normalized[i].item # normalized[j].item
          /\ normalized[i].amount # normalized[j].amount

\* n / d rounded to the nearest integer, a tie away from zero (d > 0)
RoundHalfAway(n, d) ==
    IF n >= 0 THEN (2 * n + d) \div (2 * d)
    ELSE 0 - ((2 * (0 - n) + d) \div (2 * d))

\* C9: every invoice has tax = subtotal * tax_rate rounded to the nearest
\* integer, ties away from zero, and total = subtotal + tax.
C9_TaxTiesAwayFromZero ==
    \A i \in 1..Len(invoices) :
        /\ invoices[i].tax = RoundHalfAway(invoices[i].subtotal * RateNum, RateDen)
        /\ invoices[i].total = invoices[i].subtotal + invoices[i].tax

\* C10: when main() returns 0, every store with a total has exactly one
\* invoice, billed to that store label with that subtotal, in an output
\* file of its own.
C10_OneInvoicePerStore ==
    (pc = "done" /\ ret = Some(0)) =>
        /\ \A s \in DOMAIN by_store :
              /\ Cardinality({i \in 1..Len(invoices) : invoices[i].bill_to = s}) = 1
              /\ \A i \in 1..Len(invoices) :
                    invoices[i].bill_to = s => invoices[i].subtotal = by_store[s]
        /\ Len(invoices) = Cardinality(DOMAIN by_store)
        /\ Len(created) = Len(invoices)
        /\ \A i, j \in 1..Len(created) : created[i] = created[j] => i = j
        /\ Cardinality(DOMAIN pdfs) = Cardinality(DOMAIN by_store)

TableNames ==
    {"normalized.csv", "errors.csv", "summary_by_store.csv", "summary_by_item.csv"}

\* the four tables hold all of normalized, error_rows, by_store and by_item
TablesComplete ==
    /\ DOMAIN out = TableNames
    /\ Len(out["normalized.csv"]) = Len(normalized)
    /\ \A i \in 1..Len(normalized) :
          /\ out["normalized.csv"][i].date = normalized[i].date
          /\ out["normalized.csv"][i].store = normalized[i].store
          /\ out["normalized.csv"][i].item = normalized[i].item
          /\ PyInt(out["normalized.csv"][i].quantity) = Some(normalized[i].quantity)
          /\ PyInt(out["normalized.csv"][i].amount) = Some(normalized[i].amount)
    /\ out["errors.csv"] = error_rows
    /\ Len(normalized) + Len(error_rows) = rows_read
    /\ {r.store : r \in {out["summary_by_store.csv"][i] :
                            i \in 1..Len(out["summary_by_store.csv"])}} = DOMAIN by_store
    /\ Len(out["summary_by_store.csv"]) = Cardinality(DOMAIN by_store)
    /\ \A i \in 1..Len(out["summary_by_store.csv"]) :
          PyInt(out["summary_by_store.csv"][i].total_amount)
             = Some(by_store[out["summary_by_store.csv"][i].store])
    /\ {r.item : r \in {out["summary_by_item.csv"][i] :
                           i \in 1..Len(out["summary_by_item.csv"])}} = DOMAIN by_item
    /\ Len(out["summary_by_item.csv"]) = Cardinality(DOMAIN by_item)
    /\ \A i \in 1..Len(out["summary_by_item.csv"]) :
          PyInt(out["summary_by_item.csv"][i].total_amount)
             = Some(by_item[out["summary_by_item.csv"][i].item])

Rendering == pc \in {"generate", "render", "raised"} \/ (pc = "done" /\ ret = Some(0))

\* C11: the four tables are completely written before the rendering stage
\* starts and no step of it changes them or normalized, error_rows,
\* by_store, by_item; when rendering fails for the missing font no invoice
\* file exists, _FONT_REGISTERED is false, and a later call of
\* _ensure_japanese_font_registered tries again (it raises while the font is
\* missing and registers once the font is there).
C11_RenderingFailureIsolated ==
    /\ [](Rendering => TablesComplete)
    /\ [](pc = "raised" =>
            /\ ~font_exists
            /\ pdfs = EmptyDict /\ created = <<>> /\ ii = 1
            /\ _FONT_REGISTERED = FALSE
            /\ _ensure_japanese_font_registered(_FONT_REGISTERED, font_exists).raised
            /\ _ensure_japanese_font_registered(_FONT_REGISTERED, TRUE)
                  = [raised |-> FALSE, registered |-> TRUE])
    /\ [][Rendering =>
            /\ out' = out
            /\ normalized' = normalized /\ error_rows' = error_rows
            /\ by_store' = by_store /\ by_item' = by_item]_vars

\* rendering failed in a run with accepted and rejected rows and two
\* invoices to render
C11_Witness ==
    /\ pc = "raised"
    /\ Len(normalized) >= 2 /\ Len(error_rows) >= 1
    /\ Len(invoices) = 2
    /\ DOMAIN out = TableNames
    /\ Len(out["errors.csv"]) >= 1

====
